---- MODULE Spec2Model ----
(***************************************************************************)
(* Block-production core of op-node/rollup/derive/engine_update.go:        *)
(* sanityCheckPayload, getPayloadWithBuilderPayload (the builder/engine    *)
(* race), insertPayload (commit, gossip, new-payload, forkchoice-update)   *)
(* and confirmPayload (cache reuse, builder first, engine fallback).       *)
(*                                                                         *)
(* The execution engine, the builder, the conductor and the caller are the *)
(* environment: their answers are drawn with \E at the step that receives  *)
(* them.  The async gossiper (op-node/rollup/async) is a single optional   *)
(* slot written by Gossip, emptied by Clear and read by Get.               *)
(***************************************************************************)
EXTENDS Integers, Sequences, FiniteSets, TLC

\* ------------------------------------------------------------------ bounds
\* confirmPayload attempts the caller makes in one behaviour
MaxAttempts == 2
\* longest transaction list of a payload
MaxTxs == 1
\* largest profit a builder reports
MaxProfit == 1
\* largest payload id the engine hands out
MaxPayloadID == 2
\* longest transaction list of a payload handed to insertPayload directly
MaxPayloadTxs == 4

\* ---------------------------------------------------------------- constants
\* types.DepositTxType, the first byte of a deposit transaction (0x7E)
DepositTxType == 126

\* first bytes of the transactions the environment produces: 0x02 (dynamic fee)
\* and the deposit type
TxTypes == {2, DepositTxType}

\* opaque transactions (eth.Data): the empty byte string and one-byte strings
Txs == {<< >>} \cup {<<t>> : t \in TxTypes}

\* transaction lists of the payloads engine and builder deliver: the lists of at
\* most MaxTxs decodable transactions, and the list of one undecodable
\* transaction (longer lists with undecodable transactions are those of
\* PayloadTxLists)
TxLists == UNION {[1..k -> {<<t>> : t \in TxTypes}] : k \in 0..MaxTxs} \cup {<< << >> >>}

\* transaction lists of at most MaxPayloadTxs transactions
PayloadTxLists == UNION {[1..k -> Txs] : k \in 0..MaxPayloadTxs}

Profits == 0..MaxProfit

\* a nil *big.Int
NilProfit == -1

\* BlockInsertionErrType
BlockInsertOK == "BlockInsertOK"
BlockInsertTemporaryErr == "BlockInsertTemporaryErr"
BlockInsertPrestateErr == "BlockInsertPrestateErr"
BlockInsertPayloadErr == "BlockInsertPayloadErr"

ErrTypes == {BlockInsertOK, BlockInsertTemporaryErr, BlockInsertPrestateErr, BlockInsertPayloadErr}

\* eth.ExecutePayloadStatus values the engine answers with
ExecutionValid == "VALID"
ExecutionInvalid == "INVALID"
ExecutionInvalidBlockHash == "INVALID_BLOCK_HASH"
ExecutionSyncing == "SYNCING"

Statuses == {ExecutionValid, ExecutionInvalid, ExecutionInvalidBlockHash, ExecutionSyncing}

\* eth.ErrorCode values of an eth.InputError
InvalidForkchoiceState == "InvalidForkchoiceState"
InvalidPayloadAttributes == "InvalidPayloadAttributes"
UnknownPayload == "UnknownPayload"

InputErrCodes == {InvalidForkchoiceState, InvalidPayloadAttributes, UnknownPayload}

\* the answer of a remote call: a result (kind "ok", v the status), a transport
\* error, or a structured input error (v its code)
OkRes(v) == [kind |-> "ok", v |-> v]
TransportErr == [kind |-> "transport", v |-> ""]
InputErr(code) == [kind |-> "input", v |-> code]

CommitResults == {OkRes(""), TransportErr}
NewPayloadResults == {OkRes(s) : s \in Statuses} \cup {TransportErr}
ForkchoiceResults == {OkRes(s) : s \in Statuses} \cup {TransportErr} \cup {InputErr(c) : c \in InputErrCodes}

\* eth.PayloadID{}, the zero value
ZeroPayloadID == 0

\* fcRes.PayloadID, a *eth.PayloadID: nil, or a pointer to an id (the zero id
\* included)
NilID == [present |-> FALSE, val |-> ZeroPayloadID]
PayloadIDs == {[present |-> TRUE, val |-> i] : i \in ZeroPayloadID..MaxPayloadID} \cup {NilID}

\* what eng.ForkchoiceUpdate can answer to startPayload: a result with a status
\* and a payload id, a transport error, or an input error
StartResults ==
    {[kind |-> "ok", v |-> st, id |-> i] : st \in Statuses, i \in PayloadIDs}
    \cup {[kind |-> "transport", v |-> "", id |-> NilID]}
    \cup {[kind |-> "input", v |-> c, id |-> NilID] : c \in InputErrCodes}

\* a nil *eth.ExecutionPayloadEnvelope
NilEnv == [src |-> "nil", n |-> 0, txs |-> << >>, BlockHash |-> 0]

\* the envelope source src produces in attempt n; its block hash identifies it
Envelope(src, n, txs) ==
    [src |-> src, n |-> n, txs |-> txs, BlockHash |-> 2 * n + (IF src = "builder" THEN 1 ELSE 0)]

\* eth.ForkchoiceState
ZeroFc == [head |-> 0, safe |-> 0, finalized |-> 0]
FcStates == {[head |-> 1, safe |-> 1, finalized |-> 0], [head |-> 1, safe |-> 0, finalized |-> 0]}

VARIABLES
    pc,              \* position of the foreground task
    attempt,         \* number of the current confirmPayload attempt
    enabled,         \* builder.Enabled()
    started,         \* what startPayload returned
    cache,           \* the async gossiper's slot
    fc,              \* confirmPayload's fc argument
    updateSafe,      \* confirmPayload's updateSafe argument
    ctxDone,         \* the caller's ctx of the current attempt is cancelled
    cached,          \* confirmPayload's cached: what agossip.Get() returned
    envelope,        \* confirmPayload's envelope
    builderEnvelope, \* confirmPayload's builderEnvelope
    profit,          \* confirmPayload's profit
    engRes,          \* what eng.GetPayload returned in the race
    cur,             \* the payload insertPayload is running on: "builder", "engine"
    run,             \* insertPayload runs started in this attempt
    bpc,             \* position of the attempt's builder goroutine
    bres,            \* what builder.GetPayload returned
    ch,              \* the buffered result channel (capacity 1)
    tmo,             \* ctxTimeout: "none", "live", "deadline", "canceled"
    calls,           \* history: external calls and metric records of the foreground
                     \* task in this attempt, in order
    rets,            \* history: returns of insertPayload in this attempt
    reqTimes,        \* history: RecordBuilderRequestTime records of this attempt
    raceRet,         \* history: what getPayloadWithBuilderPayload returned
    result           \* what confirmPayload returned

vars == <<pc, attempt, enabled, started, cache, fc, updateSafe, ctxDone, cached, envelope,
          builderEnvelope, profit, engRes, cur, run, bpc, bres, ch, tmo, calls, rets, reqTimes, raceRet,
          result>>

\* ------------------------------------------------------------ pure functions

\* isDepositTx: (deposit?, error?)
isDepositTx(opaqueTx) ==
    IF Len(opaqueTx) = 0
    THEN [dep |-> FALSE, err |-> TRUE]
    ELSE [dep |-> opaqueTx[1] = DepositTxType, err |-> FALSE]

RECURSIVE lastDepositLoop_noBreak(_, _, _)
\* variant: the loop does not stop at the first non-deposit, so it finds the
\* last deposit anywhere in the list
lastDepositLoop_noBreak(txns, i, last) ==
    IF i >= Len(txns)
    THEN [idx |-> last, err |-> FALSE]
    ELSE LET r == isDepositTx(txns[i + 1])
         IN  IF r.err THEN [idx |-> 0, err |-> TRUE]
             ELSE IF r.dep THEN lastDepositLoop_noBreak(txns, i + 1, i)
             ELSE lastDepositLoop_noBreak(txns, i + 1, last)

RECURSIVE lastDepositLoop(_, _, _)
\* the loop of lastDeposit at index i (from 0), with the lastDeposit found so far
lastDepositLoop(txns, i, last) ==
    IF i >= Len(txns)
    THEN [idx |-> last, err |-> FALSE]
    ELSE LET r == isDepositTx(txns[i + 1])
         IN  IF r.err THEN [idx |-> 0, err |-> TRUE]
             ELSE IF r.dep THEN lastDepositLoop(txns, i + 1, i)
             ELSE [idx |-> last, err |-> FALSE]

\* lastDeposit: (index from 0 of the last leading deposit, error?)
lastDeposit(txns) == lastDepositLoop(txns, 0, 0)

RECURSIVE noDepositFrom(_, _)
\* the second loop of sanityCheckPayload from index i (from 0): TRUE when it
\* finds neither an undecodable transaction nor a deposit
noDepositFrom(txns, i) ==
    IF i >= Len(txns) THEN TRUE
    ELSE LET r == isDepositTx(txns[i + 1])
         IN  IF r.err \/ r.dep THEN FALSE ELSE noDepositFrom(txns, i + 1)

\* sanityCheckPayload: "ok" (nil), "err" (an error), or "panic": line 51 reads
\* Transactions[0][0] without checking that the first transaction has a byte
sanityCheckPayload(txns) ==
    IF Len(txns) = 0 THEN "err"
    ELSE IF Len(txns[1]) = 0 THEN "panic"
    ELSE IF txns[1][1] # DepositTxType THEN "err"
    ELSE LET ld == lastDeposit(txns)
         IN  IF ld.err THEN "err"
             ELSE IF noDepositFrom(txns, ld.idx + 1) THEN "ok" ELSE "err"

\* ------------------------------------------------------------ decisions

\* variant: the gossiper's slot is read but the race is run all the same
reuseCached_never(c) == FALSE

\* confirmPayload line 190: a cached payload is reused and the race is skipped
reuseCached(c) == c # NilEnv

\* variant: the builder is raced whether it is enabled or not
raceWithBuilder_always(e) == TRUE

\* getPayloadWithBuilderPayload line 125: the race is run only with the builder
\* enabled; otherwise the engine fetch is all there is
raceWithBuilder(e) == e

\* variant: the builder's payload is tried only when it reports a profit
tryBuilder_whenProfitable(benv, prof) == benv # NilEnv /\ prof > 0

\* confirmPayload line 207: the builder's payload is inserted first when there is one
tryBuilder(benv, prof) == benv # NilEnv

\* variant: the engine payload is inserted after the builder's whatever the
\* builder's run returned
builderInserted_never(typ, errNil) == FALSE

\* confirmPayload line 211: the builder's insertion is final when its error is nil
builderInserted(typ, errNil) == errNil

\* variant: the select waits for the builder's result only
selectReady_onlyChannel(t, c) ==
    {b \in {"ch"} : c.envelope # NilEnv}

\* the select of getPayloadWithBuilderPayload (lines 156-167): the branches that
\* are ready with ctxTimeout in state t and the channel holding c; Go picks any
\* ready branch, and the select blocks while there is none
selectReady(t, c) ==
    {b \in {"done", "ch"} : \/ b = "done" /\ t \in {"deadline", "canceled"}
                            \/ b = "ch" /\ c.envelope # NilEnv}

\* variant: the payload is gossiped before it is committed to the conductor
stageAfter_gossipFirst(stage) ==
    CASE stage = "sanity" -> "gossip"
      [] stage = "gossip" -> "commit"
      [] stage = "commit" -> "newPayload"
      [] stage = "newPayload" -> "forkchoice"

\* insertPayload's statement order (lines 238-264): the stage after each stage
stageAfter(stage) ==
    CASE stage = "sanity" -> "commit"
      [] stage = "commit" -> "gossip"
      [] stage = "gossip" -> "newPayload"
      [] stage = "newPayload" -> "forkchoice"

\* variant: every failure of eng.NewPayload clears the gossiper's slot
newPayloadOutcome_clearsAlways(r) ==
    IF r.kind # "ok" THEN [typ |-> BlockInsertTemporaryErr, clear |-> TRUE]
    ELSE IF r.v \in {ExecutionInvalid, ExecutionInvalidBlockHash}
    THEN [typ |-> BlockInsertPayloadErr, clear |-> TRUE]
    ELSE IF r.v # ExecutionValid THEN [typ |-> BlockInsertTemporaryErr, clear |-> TRUE]
    ELSE [typ |-> "", clear |-> FALSE]

\* variant: only a transport error stops the insertion, any status goes on to
\* the forkchoice update
newPayloadOutcome_anyStatus(r) ==
    IF r.kind # "ok" THEN [typ |-> BlockInsertTemporaryErr, clear |-> FALSE]
    ELSE [typ |-> "", clear |-> FALSE]

\* insertPayload lines 248-258: what follows eng.NewPayload's answer r:
\* typ "" continues to the forkchoice update
newPayloadOutcome(r) ==
    IF r.kind # "ok" THEN [typ |-> BlockInsertTemporaryErr, clear |-> FALSE]
    ELSE IF r.v \in {ExecutionInvalid, ExecutionInvalidBlockHash}
    THEN [typ |-> BlockInsertPayloadErr, clear |-> TRUE]
    ELSE IF r.v # ExecutionValid THEN [typ |-> BlockInsertTemporaryErr, clear |-> FALSE]
    ELSE [typ |-> "", clear |-> FALSE]

\* variant: an inconsistent forkchoice state is classified as startPayload
\* classifies it before the block is built
forkchoiceOutcome_asStartPayload(r) ==
    IF r.kind = "input"
    THEN [typ |-> BlockInsertPrestateErr, clear |-> TRUE]
    ELSE IF r.kind = "transport" THEN [typ |-> BlockInsertTemporaryErr, clear |-> FALSE]
    ELSE IF r.v # ExecutionValid THEN [typ |-> BlockInsertPayloadErr, clear |-> TRUE]
    ELSE [typ |-> BlockInsertOK, clear |-> TRUE]

\* variant: a forkchoice update answered with a status that is not Valid is
\* taken as a temporary failure, the slot being cleared all the same
forkchoiceOutcome_nonValidTemporary(r) ==
    IF r.kind = "input"
    THEN IF r.v = InvalidForkchoiceState
         THEN [typ |-> BlockInsertPayloadErr, clear |-> TRUE]
         ELSE [typ |-> BlockInsertPrestateErr, clear |-> TRUE]
    ELSE IF r.kind = "transport" THEN [typ |-> BlockInsertTemporaryErr, clear |-> FALSE]
    ELSE IF r.v # ExecutionValid THEN [typ |-> BlockInsertTemporaryErr, clear |-> TRUE]
    ELSE [typ |-> BlockInsertOK, clear |-> TRUE]

\* variant: the success path forgets agossip.Clear()
forkchoiceOutcome_keepsCache(r) ==
    IF r.kind = "input"
    THEN IF r.v = InvalidForkchoiceState
         THEN [typ |-> BlockInsertPayloadErr, clear |-> TRUE]
         ELSE [typ |-> BlockInsertPrestateErr, clear |-> TRUE]
    ELSE IF r.kind = "transport" THEN [typ |-> BlockInsertTemporaryErr, clear |-> FALSE]
    ELSE IF r.v # ExecutionValid THEN [typ |-> BlockInsertPayloadErr, clear |-> FALSE]
    ELSE [typ |-> BlockInsertOK, clear |-> FALSE]

\* variant: a transport error of the forkchoice update clears the slot too
forkchoiceOutcome_clearsOnTransport(r) ==
    IF r.kind = "input"
    THEN IF r.v = InvalidForkchoiceState
         THEN [typ |-> BlockInsertPayloadErr, clear |-> TRUE]
         ELSE [typ |-> BlockInsertPrestateErr, clear |-> TRUE]
    ELSE IF r.kind = "transport" THEN [typ |-> BlockInsertTemporaryErr, clear |-> TRUE]
    ELSE IF r.v # ExecutionValid THEN [typ |-> BlockInsertPayloadErr, clear |-> TRUE]
    ELSE [typ |-> BlockInsertOK, clear |-> TRUE]

\* insertPayload lines 264-289: what follows eng.ForkchoiceUpdate's answer r
forkchoiceOutcome(r) ==
    IF r.kind = "input"
    THEN IF r.v = InvalidForkchoiceState
         THEN [typ |-> BlockInsertPayloadErr, clear |-> TRUE]
         ELSE [typ |-> BlockInsertPrestateErr, clear |-> TRUE]
    ELSE IF r.kind = "transport" THEN [typ |-> BlockInsertTemporaryErr, clear |-> FALSE]
    ELSE IF r.v # ExecutionValid THEN [typ |-> BlockInsertPayloadErr, clear |-> TRUE]
    ELSE [typ |-> BlockInsertOK, clear |-> TRUE]

\* variant: the safe pointer is advanced whether the caller asked for it or not
finalFc_alwaysSafe(f, us, p) ==
    [head |-> p.BlockHash, safe |-> p.BlockHash, finalized |-> f.finalized]

\* insertPayload lines 260-263: the forkchoice state submitted for payload p
finalFc(f, us, p) ==
    [head |-> p.BlockHash, safe |-> IF us THEN p.BlockHash ELSE f.safe, finalized |-> f.finalized]

\* a nil *eth.PayloadAttributes
NilAttrs == "nil"

\* insertPayload line 264: the attributes submitted with the forkchoice state
finalAttrs == NilAttrs

\* ------------------------------------------------------------ startPayload

\* variant: an inconsistent forkchoice state is classified as insertPayload
\* classifies it after the block was built
startPayloadErr_asPayloadErr(r) ==
    IF r.kind = "input"
    THEN CASE r.v = InvalidForkchoiceState -> [id |-> ZeroPayloadID, typ |-> BlockInsertPayloadErr, errNil |-> FALSE]
           [] r.v = InvalidPayloadAttributes -> [id |-> ZeroPayloadID, typ |-> BlockInsertPayloadErr, errNil |-> FALSE]
           [] OTHER -> [id |-> ZeroPayloadID, typ |-> BlockInsertPrestateErr, errNil |-> FALSE]
    ELSE [id |-> ZeroPayloadID, typ |-> BlockInsertTemporaryErr, errNil |-> FALSE]

\* startPayload lines 90-104: eng.ForkchoiceUpdate returned the error r
startPayloadErr(r) ==
    IF r.kind = "input"
    THEN CASE r.v = InvalidForkchoiceState -> [id |-> ZeroPayloadID, typ |-> BlockInsertPrestateErr, errNil |-> FALSE]
           [] r.v = InvalidPayloadAttributes -> [id |-> ZeroPayloadID, typ |-> BlockInsertPayloadErr, errNil |-> FALSE]
           [] OTHER -> [id |-> ZeroPayloadID, typ |-> BlockInsertPrestateErr, errNil |-> FALSE]
    ELSE [id |-> ZeroPayloadID, typ |-> BlockInsertTemporaryErr, errNil |-> FALSE]

\* variant: a Valid answer without a payload id is taken as a success with the
\* zero id
startPayloadStatus_missingIdOK(r) ==
    CASE r.v \in {ExecutionInvalid, ExecutionInvalidBlockHash} ->
            [id |-> ZeroPayloadID, typ |-> BlockInsertPayloadErr, errNil |-> FALSE]
      [] r.v = ExecutionValid ->
            [id |-> r.id.val, typ |-> BlockInsertOK, errNil |-> TRUE]
      [] OTHER -> [id |-> ZeroPayloadID, typ |-> BlockInsertTemporaryErr, errNil |-> FALSE]

\* startPayload lines 106-118: eng.ForkchoiceUpdate returned the result r
startPayloadStatus(r) ==
    CASE r.v \in {ExecutionInvalid, ExecutionInvalidBlockHash} ->
            [id |-> ZeroPayloadID, typ |-> BlockInsertPayloadErr, errNil |-> FALSE]
      [] r.v = ExecutionValid ->
            IF ~r.id.present
            THEN [id |-> ZeroPayloadID, typ |-> BlockInsertTemporaryErr, errNil |-> FALSE]
            ELSE [id |-> r.id.val, typ |-> BlockInsertOK, errNil |-> TRUE]
      [] OTHER -> [id |-> ZeroPayloadID, typ |-> BlockInsertTemporaryErr, errNil |-> FALSE]

\* startPayload: (id, errType, err = nil?) for the answer r of eng.ForkchoiceUpdate
startPayload(r) ==
    IF r.kind # "ok" THEN startPayloadErr(r) ELSE startPayloadStatus(r)

\* ------------------------------------------------------------ the async gossiper

\* async.AsyncGossiper: a single optional slot holding the payload that was
\* gossiped and not yet inserted. Get reads the slot
Get(slot) == slot

\* Gossip broadcasts p and puts it in the slot
Gossip(slot, p) == p

\* Clear empties the slot
Clear(slot) == NilEnv

\* ------------------------------------------------------------ history records

\* an external call of the foreground task: op on payload p answered res; f is
\* the forkchoice state submitted (ZeroFc when the call takes none)
Call(op, p, res, f) ==
    [op |-> op, run |-> run, p |-> p, res |-> res, fc |-> f, v |-> 0, attrs |-> NilAttrs]

\* the forkchoice update of insertPayload: state f and attributes a submitted
\* for payload p, answered res
FcuCall(p, res, f, a) == [Call("ForkchoiceUpdate", p, res, f) EXCEPT !.attrs = a]

\* a metric record of the foreground task: metric m tagged tag, for payload p, value v
Metric(m, tag, p, v) ==
    [op |-> m, run |-> run, p |-> p, res |-> [kind |-> "metric", v |-> tag], fc |-> ZeroFc, v |-> v,
     attrs |-> NilAttrs]

NilResult == [envelope |-> NilEnv, profit |-> NilProfit]

NoBuilderRes == [ok |-> FALSE, envelope |-> NilEnv, profit |-> NilProfit, intime |-> FALSE,
                 sent |-> FALSE]

NoEngRes == [ok |-> FALSE, env |-> NilEnv, returned |-> FALSE]

NoRaceRet == [returned |-> FALSE, envelope |-> NilEnv, builder |-> NilEnv, profit |-> NilProfit,
              errNil |-> TRUE, engReturned |-> FALSE, doneReady |-> FALSE, chReady |-> FALSE,
              intime |-> FALSE, sent |-> FALSE]

NoStart == [returned |-> FALSE, res |-> [kind |-> "none", v |-> "", id |-> NilID],
            id |-> ZeroPayloadID, typ |-> BlockInsertOK, errNil |-> TRUE]

NoResult == [returned |-> FALSE, out |-> NilEnv, typ |-> BlockInsertOK, errNil |-> TRUE]

\* what eng.GetPayload can answer in attempt n
EngineResults(n) ==
    {[ok |-> TRUE, env |-> Envelope("engine", n, t), returned |-> TRUE] : t \in TxLists}
    \cup {[ok |-> FALSE, env |-> NilEnv, returned |-> TRUE]}

\* what builder.GetPayload can answer in attempt n
BuilderResults(n) ==
    {[ok |-> TRUE, envelope |-> Envelope("builder", n, t), profit |-> v] : t \in TxLists, v \in Profits}
    \cup {[ok |-> FALSE, envelope |-> NilEnv, profit |-> NilProfit]}

\* the same once getPayloadWithBuilderPayload has returned: nothing receives
\* from the channel any more, so one payload stands for every late answer
LateBuilderResults(n) ==
    {[ok |-> TRUE, envelope |-> Envelope("builder", n, << >>), profit |-> 0],
     [ok |-> FALSE, envelope |-> NilEnv, profit |-> NilProfit]}

\* the payload insertPayload is running on
CurPayload == IF cur = "builder" THEN builderEnvelope ELSE envelope

\* the caller's arguments fc and updateSafe stay the same over its attempts
Init ==
    /\ pc = "idle"
    /\ attempt = 0
    /\ enabled \in BOOLEAN
    /\ started = NoStart
    /\ cache = NilEnv
    /\ fc \in FcStates
    /\ updateSafe \in BOOLEAN
    /\ ctxDone = FALSE
    /\ cached = NilEnv
    /\ envelope = NilEnv
    /\ builderEnvelope = NilEnv
    /\ profit = NilProfit
    /\ engRes = NoEngRes
    /\ cur = "none"
    /\ run = 0
    /\ bpc = "none"
    /\ bres = NoBuilderRes
    /\ ch = NilResult
    /\ tmo = "none"
    /\ calls = << >>
    /\ rets = << >>
    /\ reqTimes = 0
    /\ raceRet = NoRaceRet
    /\ result = NoResult

\* ------------------------------------------------------------ confirmPayload

\* the caller calls confirmPayload: one attempt at a time, and the next one
\* once the builder goroutine of the last one (cancelled by the deferred
\* cancel, and sharing nothing with a later attempt) has ended
StartAttempt ==
    /\ pc \in {"idle", "done"}
    /\ bpc \in {"none", "exited"}
    /\ attempt < MaxAttempts
    /\ attempt' = attempt + 1
    /\ pc' = "confirm"
    /\ ctxDone' = FALSE
    /\ cached' = NilEnv
    /\ envelope' = NilEnv
    /\ builderEnvelope' = NilEnv
    /\ profit' = NilProfit
    /\ engRes' = NoEngRes
    /\ cur' = "none"
    /\ run' = 0
    /\ bpc' = "none"
    /\ bres' = NoBuilderRes
    /\ ch' = NilResult
    /\ tmo' = "none"
    /\ calls' = << >>
    /\ rets' = << >>
    /\ reqTimes' = 0
    /\ raceRet' = NoRaceRet
    /\ result' = NoResult
    /\ UNCHANGED <<enabled, started, cache, fc, updateSafe>>

\* confirmPayload lines 202-223, from the payloads obtained to the first
\* insertPayload call; log is the history so far
enterInsert(env, benv, prof, log) ==
    LET m1 == IF env # NilEnv
              THEN log \o <<Metric("RecordPayloadGas", "engine", env, 0),
                            Metric("CountSequencedTxsBySource", "engine", env, Len(env.txs))>>
              ELSE log
    IN  /\ envelope' = env
        /\ builderEnvelope' = benv
        /\ profit' = prof
        /\ IF tryBuilder(benv, prof)
           THEN /\ calls' = m1 \o <<Metric("RecordPayloadGas", "builder", benv, 0),
                                    Metric("CountSequencedTxsBySource", "builder", benv,
                                           Len(benv.txs))>>
                /\ cur' = "builder"
           ELSE /\ calls' = m1 \o <<Metric("RecordSequencerProfit", "engine", NilEnv, 0),
                                    Metric("RecordSequencerPayloadInserted", "engine", NilEnv, 0)>>
                /\ cur' = "engine"
        /\ run' = 1
        /\ pc' = "sanity"

\* confirmPayload lines 186-200: read the gossiper's slot; reuse the cached
\* payload, or start getPayloadWithBuilderPayload (lines 125-151: with the
\* builder enabled, create ctxTimeout and start the builder goroutine)
ConfirmStart ==
    /\ pc = "confirm"
    /\ cached' = Get(cache)
    /\ IF reuseCached(Get(cache))
       THEN /\ enterInsert(Get(cache), NilEnv, NilProfit, calls)
            /\ UNCHANGED <<bpc, tmo>>
       ELSE /\ pc' = "engineFetch"
            /\ IF raceWithBuilder(enabled)
               THEN /\ bpc' = "calling"
                    /\ tmo' = "live"
               ELSE UNCHANGED <<bpc, tmo>>
            /\ UNCHANGED <<envelope, builderEnvelope, profit, calls, cur, run>>
    /\ UNCHANGED <<attempt, enabled, started, cache, fc, updateSafe, ctxDone, engRes, bres, ch,
                   rets, reqTimes, raceRet, result>>

\* getPayloadWithBuilderPayload returns (r.env, benv, prof, the engine fetch's error)
raceReturn(r, benv, prof, log) ==
    /\ raceRet' = [returned |-> TRUE, envelope |-> r.env, builder |-> benv, profit |-> prof,
                   errNil |-> r.ok, engReturned |-> r.returned,
                   doneReady |-> tmo \in {"deadline", "canceled"},
                   chReady |-> ch.envelope # NilEnv,
                   intime |-> bres.ok /\ bres.intime, sent |-> bres.sent]
    /\ enterInsert(r.env, benv, prof, log)

\* eng.GetPayload returns (line 126 with the builder disabled, line 153 otherwise)
EngineGetPayload ==
    /\ pc = "engineFetch"
    /\ \E r \in EngineResults(attempt) :
        /\ engRes' = r
        /\ IF ~raceWithBuilder(enabled)
           THEN raceReturn(r, NilEnv, NilProfit, calls)
           ELSE /\ pc' = "select"
                /\ UNCHANGED <<envelope, builderEnvelope, profit, calls, cur, run, raceRet>>
    /\ UNCHANGED <<attempt, enabled, started, cache, fc, updateSafe, ctxDone, cached, bpc, bres, ch, tmo,
                   rets, reqTimes, result>>

\* the select (lines 156-167) takes a ready branch; the deferred cancel (line 132)
\* runs on return
Select ==
    /\ pc = "select"
    /\ \E b \in selectReady(tmo, ch) :
        IF b = "done"
        THEN /\ raceReturn(engRes, NilEnv, NilProfit,
                           Append(calls, Metric("RecordBuilderRequestFail", "", NilEnv, 0)))
             /\ UNCHANGED ch
        ELSE /\ raceReturn(engRes, ch.envelope, ch.profit, calls)
             /\ ch' = NilResult
    /\ tmo' = IF tmo = "live" THEN "canceled" ELSE tmo
    /\ UNCHANGED <<attempt, enabled, started, cache, fc, updateSafe, ctxDone, cached, engRes, bpc,
                   bres, rets, reqTimes, result>>

\* ------------------------------------------------------------ insertPayload

\* insertPayload goes on to its next statement
continueTo(stage, log) ==
    /\ pc' = stage
    /\ calls' = log
    /\ UNCHANGED <<rets, result, cur, run>>

\* variant: the fallback returns the type and error of the builder's run (the
\* errTyp and err of line 210) with the engine envelope
engineReturn_firstRun(typ, errNil) ==
    [returned |-> TRUE, out |-> envelope,
     typ |-> IF Len(rets) > 0 THEN rets[1].typ ELSE typ,
     errNil |-> IF Len(rets) > 0 THEN rets[1].errNil ELSE errNil]

\* confirmPayload line 224: the engine envelope with the type and error of the
\* insertPayload run on it
engineReturn(typ, errNil) ==
    [returned |-> TRUE, out |-> envelope, typ |-> typ, errNil |-> errNil]

\* insertPayload returns (typ, err) with the gossiper's slot holding c, and
\* confirmPayload goes on (lines 211-224): a builder run that ended without
\* error is the attempt's result, any other builder run is followed by a run
\* on the engine payload, whose result is the attempt's
insertReturn(typ, errNil, c, log) ==
    /\ rets' = Append(rets, [run |-> run, p |-> CurPayload, typ |-> typ, errNil |-> errNil,
                             cache |-> c])
    /\ IF cur = "builder"
       THEN IF builderInserted(typ, errNil)
            THEN /\ calls' = log \o <<Metric("RecordSequencerProfit", "builder", NilEnv, profit),
                                      Metric("RecordSequencerPayloadInserted", "builder", NilEnv, 0)>>
                 /\ result' = [returned |-> TRUE, out |-> builderEnvelope, typ |-> typ,
                               errNil |-> errNil]
                 /\ pc' = "done"
                 /\ UNCHANGED <<cur, run>>
            ELSE /\ calls' = log \o <<Metric("RecordSequencerProfit", "engine", NilEnv, 0),
                                      Metric("RecordSequencerPayloadInserted", "engine", NilEnv, 0)>>
                 /\ cur' = "engine"
                 /\ run' = run + 1
                 /\ pc' = "sanity"
                 /\ UNCHANGED result
       ELSE /\ calls' = log
            /\ result' = engineReturn(typ, errNil)
            /\ pc' = "done"
            /\ UNCHANGED <<cur, run>>

\* variant: a payload that fails the check is returned with its error under
\* the type BlockInsertOK
sanityOutcome_okType(c) == IF c = "err" THEN BlockInsertOK ELSE ""

\* variant: a payload that fails the check is reported as a temporary failure
sanityOutcome_temporary(c) == IF c = "err" THEN BlockInsertTemporaryErr ELSE ""

\* insertPayload lines 238-240: the type returned after sanityCheckPayload
\* answered c; "" continues to the conductor commit
sanityOutcome(c) == IF c = "err" THEN BlockInsertPayloadErr ELSE ""

\* lines 237-240: a nil envelope panics at line 237, an empty first transaction
\* at line 51; a payload that fails the check is a payload error
InsertSanity ==
    /\ pc = "sanity"
    /\ LET c == IF CurPayload = NilEnv THEN "panic" ELSE sanityCheckPayload(CurPayload.txs)
           log == Append(calls, Call("sanityCheckPayload", CurPayload, [kind |-> c, v |-> ""], ZeroFc))
       IN  IF c = "panic"
           THEN /\ pc' = "crashed"
                /\ calls' = log
                /\ UNCHANGED <<rets, result, cur, run>>
           ELSE IF sanityOutcome(c) # ""
           THEN insertReturn(sanityOutcome(c), FALSE, cache, log)
           ELSE continueTo(stageAfter("sanity"), log)
    /\ UNCHANGED <<attempt, enabled, started, cache, fc, updateSafe, ctxDone, cached, envelope, builderEnvelope,
                   profit, engRes, bpc, bres, ch, tmo, reqTimes, raceRet>>

\* lines 241-243: sequencerConductor.CommitUnsafePayload
InsertCommit ==
    /\ pc = "commit"
    /\ \E r \in CommitResults :
        LET log == Append(calls, Call("CommitUnsafePayload", CurPayload, r, ZeroFc))
        IN  IF r.kind = "ok"
            THEN continueTo(stageAfter("commit"), log)
            ELSE insertReturn(BlockInsertTemporaryErr, FALSE, cache, log)
    /\ UNCHANGED <<attempt, enabled, started, cache, fc, updateSafe, ctxDone, cached, envelope, builderEnvelope,
                   profit, engRes, bpc, bres, ch, tmo, reqTimes, raceRet>>

\* line 246: agossip.Gossip puts the payload in the gossiper's slot
InsertGossip ==
    /\ pc = "gossip"
    /\ cache' = Gossip(cache, CurPayload)
    /\ continueTo(stageAfter("gossip"), Append(calls, Call("Gossip", CurPayload, OkRes(""), ZeroFc)))
    /\ UNCHANGED <<attempt, enabled, started, fc, updateSafe, ctxDone, cached, envelope, builderEnvelope,
                   profit, engRes, bpc, bres, ch, tmo, reqTimes, raceRet>>

\* lines 248-258: eng.NewPayload
InsertNewPayload ==
    /\ pc = "newPayload"
    /\ \E r \in NewPayloadResults :
        LET o == newPayloadOutcome(r)
            c == IF o.clear THEN Clear(cache) ELSE cache
            l1 == Append(calls, Call("NewPayload", CurPayload, r, ZeroFc))
            log == IF o.clear THEN Append(l1, Call("Clear", CurPayload, OkRes(""), ZeroFc)) ELSE l1
        IN  /\ cache' = c
            /\ IF o.typ = ""
               THEN continueTo(stageAfter("newPayload"), log)
               ELSE insertReturn(o.typ, FALSE, c, log)
    /\ UNCHANGED <<attempt, enabled, started, fc, updateSafe, ctxDone, cached, envelope, builderEnvelope,
                   profit, engRes, bpc, bres, ch, tmo, reqTimes, raceRet>>

\* lines 260-289: eng.ForkchoiceUpdate with the new head and nil attributes
InsertForkchoice ==
    /\ pc = "forkchoice"
    /\ \E r \in ForkchoiceResults :
        LET o == forkchoiceOutcome(r)
            c == IF o.clear THEN Clear(cache) ELSE cache
            l1 == Append(calls, FcuCall(CurPayload, r, finalFc(fc, updateSafe, CurPayload),
                                        finalAttrs))
            log == IF o.clear THEN Append(l1, Call("Clear", CurPayload, OkRes(""), ZeroFc)) ELSE l1
        IN  /\ cache' = c
            /\ insertReturn(o.typ, o.typ = BlockInsertOK, c, log)
    /\ UNCHANGED <<attempt, enabled, started, fc, updateSafe, ctxDone, cached, envelope, builderEnvelope,
                   profit, engRes, bpc, bres, ch, tmo, reqTimes, raceRet>>

\* ------------------------------------------------------------ the builder goroutine

\* variant: the goroutine cancels the caller's ctx, which the engine fetch uses
builderCancel_parent(t) ==
    /\ tmo' = IF t = "live" THEN "canceled" ELSE t
    /\ ctxDone' = TRUE

\* a select that waits is completed by the first event that makes one of its
\* branches ready: no further event comes before it while a branch is ready
selectSettled == pc = "select" /\ selectReady(tmo, ch) # {}

\* line 147: the goroutine's cancel() ends ctxTimeout, and only it
builderCancel(t) ==
    /\ tmo' = IF t = "live" THEN "canceled" ELSE t
    /\ UNCHANGED ctxDone

\* line 143: builder.GetPayload returns in the goroutine
BuilderGetPayload ==
    /\ bpc = "calling"
    /\ \E r \in IF raceRet.returned THEN LateBuilderResults(attempt) ELSE BuilderResults(attempt) :
        bres' = [ok |-> r.ok, envelope |-> r.envelope, profit |-> r.profit,
                 intime |-> tmo = "live", sent |-> FALSE]
    /\ bpc' = "returned"
    /\ UNCHANGED <<pc, attempt, enabled, started, cache, fc, updateSafe, ctxDone, cached, envelope,
                   builderEnvelope, profit, engRes, cur, run, ch, tmo, calls, rets, reqTimes,
                   raceRet, result>>

\* lines 144-150: record the request time; on an error cancel and end, else
\* send the result on the channel (capacity 1, one send: it never blocks)
BuilderDeliver ==
    /\ bpc = "returned"
    /\ ~selectSettled
    /\ reqTimes' = reqTimes + 1
    /\ IF ~bres.ok
       THEN /\ builderCancel(tmo)
            /\ UNCHANGED ch
       ELSE /\ ch' = [envelope |-> bres.envelope, profit |-> bres.profit]
            /\ UNCHANGED <<tmo, ctxDone>>
    /\ bres' = [bres EXCEPT !.sent = bres.ok /\ tmo = "live"]
    /\ bpc' = "exited"
    /\ UNCHANGED <<pc, attempt, enabled, started, cache, fc, updateSafe, cached, envelope, builderEnvelope,
                   profit, engRes, cur, run, calls, rets, raceRet, result>>

\* line 131: the 2000 ms of ctxTimeout elapse
DeadlineFire ==
    /\ tmo = "live"
    /\ ~selectSettled
    /\ tmo' = "deadline"
    /\ UNCHANGED <<pc, attempt, enabled, started, cache, fc, updateSafe, ctxDone, cached, envelope,
                   builderEnvelope, profit, engRes, cur, run, bpc, bres, ch, calls, rets,
                   reqTimes, raceRet, result>>

\* the caller cancels the attempt's ctx during the race; ctxTimeout is its child
CallerCancel ==
    /\ pc \in {"engineFetch", "select"}
    /\ ~selectSettled
    /\ ~ctxDone
    /\ ctxDone' = TRUE
    /\ tmo' = IF tmo = "live" THEN "canceled" ELSE tmo
    /\ UNCHANGED <<pc, attempt, enabled, started, cache, fc, updateSafe, cached, envelope, builderEnvelope,
                   profit, engRes, cur, run, bpc, bres, ch, calls, rets, reqTimes, raceRet,
                   result>>

Next ==
    \/ StartAttempt
    \/ ConfirmStart
    \/ EngineGetPayload
    \/ Select
    \/ InsertSanity
    \/ InsertCommit
    \/ InsertGossip
    \/ InsertNewPayload
    \/ InsertForkchoice
    \/ BuilderGetPayload
    \/ BuilderDeliver
    \/ DeadlineFire
    \/ CallerCancel

Spec == Init /\ [][Next]_vars

\* ------------------------------------------------------------ startPayload alone

\* the caller calls startPayload with its forkchoice state: line 89 submits it
\* to eng.ForkchoiceUpdate, whose answer decides what is returned
StartPayload ==
    /\ pc = "idle"
    /\ attempt = 0
    /\ ~started.returned
    /\ \E r \in StartResults :
        LET o == startPayload(r)
        IN  started' = [returned |-> TRUE, res |-> r, id |-> o.id, typ |-> o.typ,
                        errNil |-> o.errNil]
    /\ UNCHANGED <<pc, attempt, enabled, cache, fc, updateSafe, ctxDone, cached, envelope,
                   builderEnvelope, profit, engRes, cur, run, bpc, bres, ch, tmo, calls, rets,
                   reqTimes, raceRet, result>>

StartNext == StartPayload

StartSpec == Init /\ [][StartNext]_vars

\* ------------------------------------------------------------ the race alone

\* one attempt up to the return of getPayloadWithBuilderPayload, and the
\* builder goroutine for as long as it runs
RaceNext ==
    \/ StartAttempt
    \/ ConfirmStart
    \/ EngineGetPayload
    \/ Select
    \/ BuilderGetPayload
    \/ BuilderDeliver
    \/ DeadlineFire
    \/ CallerCancel

\* eng.GetPayload returns and the timer of ctxTimeout fires in the end; the Go
\* scheduler runs a select that has a ready branch and a goroutine that can
\* step. builder.GetPayload may never return
RaceFair ==
    /\ Init
    /\ [][RaceNext]_vars
    /\ WF_vars(EngineGetPayload)
    /\ WF_vars(DeadlineFire)
    /\ WF_vars(Select)
    /\ WF_vars(BuilderDeliver)

\* ------------------------------------------------------------ insertPayload alone

\* insertPayload called on one payload with any transaction list, the
\* gossiper's slot empty
InsertInit ==
    /\ pc = "sanity"
    /\ attempt = 1
    /\ enabled = FALSE
    /\ started = NoStart
    /\ cache = NilEnv
    /\ fc \in FcStates
    /\ updateSafe \in BOOLEAN
    /\ ctxDone = FALSE
    /\ cached = NilEnv
    /\ envelope \in {Envelope("engine", 1, t) : t \in PayloadTxLists}
    /\ builderEnvelope = NilEnv
    /\ profit = NilProfit
    /\ engRes = NoEngRes
    /\ cur = "engine"
    /\ run = 1
    /\ bpc = "none"
    /\ bres = NoBuilderRes
    /\ ch = NilResult
    /\ tmo = "none"
    /\ calls = << >>
    /\ rets = << >>
    /\ reqTimes = 0
    /\ raceRet = NoRaceRet
    /\ result = NoResult

InsertNext ==
    \/ InsertSanity
    \/ InsertCommit
    \/ InsertGossip
    \/ InsertNewPayload
    \/ InsertForkchoice

InsertSpec == InsertInit /\ [][InsertNext]_vars

\* ------------------------------------------------------------ properties

\* the remote calls and the broadcast of insertPayload
ExternalOps == {"CommitUnsafePayload", "Gossip", "NewPayload", "ForkchoiceUpdate"}

InsertStages == {"sanity", "commit", "gossip", "newPayload", "forkchoice"}

\* insertPayload run r made call op on payload p, answered res, before position i of the history
HasCall(r, op, p, res, i) ==
    \E k \in 1..(i - 1) :
        calls[k].run = r /\ calls[k].op = op /\ calls[k].p = p /\ calls[k].res = res

\* before position i, run r has seen p pass the sanity check, the conductor
\* accept it and eng.NewPayload answer Valid for it
Qualified(r, p, i) ==
    /\ p # NilEnv
    /\ sanityCheckPayload(p.txs) = "ok"
    /\ HasCall(r, "sanityCheckPayload", p, [kind |-> "ok", v |-> ""], i)
    /\ HasCall(r, "CommitUnsafePayload", p, OkRes(""), i)
    /\ HasCall(r, "NewPayload", p, OkRes(ExecutionValid), i)

\* C1: a forkchoice update that makes a payload's block hash the head is
\* submitted only for a payload that, in the same insertPayload run, passed
\* sanityCheckPayload, was committed to the conductor and got status Valid from
\* eng.NewPayload; no other payload reaches the forkchoice update, is returned
\* with BlockInsertOK by insertPayload, or is confirmPayload's OK result.
C1_OnlyQualifiedPayloadFinalized ==
    /\ \A i \in DOMAIN calls :
          calls[i].op = "ForkchoiceUpdate" =>
              /\ calls[i].fc.head = calls[i].p.BlockHash
              /\ Qualified(calls[i].run, calls[i].p, i)
    /\ \A j \in DOMAIN rets :
          rets[j].typ = BlockInsertOK =>
              /\ Qualified(rets[j].run, rets[j].p, Len(calls) + 1)
              /\ HasCall(rets[j].run, "ForkchoiceUpdate", rets[j].p, OkRes(ExecutionValid),
                         Len(calls) + 1)
    /\ (result.returned /\ result.typ = BlockInsertOK) =>
          \E j \in DOMAIN rets : rets[j].p = result.out /\ rets[j].typ = BlockInsertOK

\* C1 happens: a forkchoice update was submitted and the attempt ended OK
C1_Witness ==
    /\ result.returned
    /\ result.typ = BlockInsertOK
    /\ \E i \in DOMAIN calls : calls[i].op = "ForkchoiceUpdate" /\ calls[i].p = result.out

\* the external calls of run r, in order
ExternalCalls(r) ==
    LET isExt(e) == e.run = r /\ e.op \in ExternalOps
    IN  SelectSeq(calls, isExt)

CallOrder == <<"CommitUnsafePayload", "Gossip", "NewPayload", "ForkchoiceUpdate">>

\* C2: in every insertPayload run the external calls are CommitUnsafePayload,
\* Gossip, NewPayload, ForkchoiceUpdate in this order, each made once, on the
\* same payload, a later one only after all earlier ones: the calls made so far
\* are always an initial part of that sequence.
C2_CallsInFixedOrder ==
    \A r \in 1..run :
        LET ext == ExternalCalls(r)
        IN  /\ Len(ext) <= Len(CallOrder)
            /\ \A k \in DOMAIN ext :
                  /\ ext[k].op = CallOrder[k]
                  /\ ext[k].p = ext[1].p
                  /\ k > 1 => ext[k - 1].res.kind = "ok"
            /\ \A k \in DOMAIN ext :
                  ext[k].op = "ForkchoiceUpdate" => ext[k].fc.head = ext[k].p.BlockHash

\* C2 happens: a run made all four calls
C2_Witness ==
    \E r \in 1..run : Len(ExternalCalls(r)) = Len(CallOrder)

\* C3: when the payload passes the validator, eng.NewPayload answers Valid and
\* the forkchoice update returns without error with status Valid, insertPayload
\* returns BlockInsertOK with a nil error and the gossiper's slot is empty on
\* return (and still empty when confirmPayload has returned that result).
C3_ValidPayloadInsertedAndCacheEmpty ==
    /\ \A j \in DOMAIN rets :
          LET r == rets[j].run
              p == rets[j].p
          IN  ( /\ HasCall(r, "sanityCheckPayload", p, [kind |-> "ok", v |-> ""], Len(calls) + 1)
                /\ HasCall(r, "NewPayload", p, OkRes(ExecutionValid), Len(calls) + 1)
                /\ HasCall(r, "ForkchoiceUpdate", p, OkRes(ExecutionValid), Len(calls) + 1) )
              => /\ rets[j].typ = BlockInsertOK
                 /\ rets[j].errNil
                 /\ rets[j].cache = NilEnv
    /\ (pc = "done" /\ result.typ = BlockInsertOK) => cache = NilEnv

\* C3 happens: an insertPayload run returned after a Valid forkchoice update
C3_Witness ==
    \E j \in DOMAIN rets :
        /\ HasCall(rets[j].run, "ForkchoiceUpdate", rets[j].p, OkRes(ExecutionValid), Len(calls) + 1)
        /\ rets[j].typ = BlockInsertOK

\* position of run r's Gossip call in the history (0 when it made none)
GossipAt(r) ==
    IF \E k \in DOMAIN calls : calls[k].run = r /\ calls[k].op = "Gossip"
    THEN CHOOSE k \in DOMAIN calls : calls[k].run = r /\ calls[k].op = "Gossip"
    ELSE 0

\* C4: for an insertPayload run that reached Gossip: when it returns
\* BlockInsertOK, BlockInsertPayloadErr or BlockInsertPrestateErr, Clear was
\* called after Gossip and the slot is empty at return; when it returns
\* BlockInsertTemporaryErr, Clear was not called and the slot holds the
\* gossiped payload at return.
C4_CacheClearedUnlessTemporary ==
    \A j \in DOMAIN rets :
        LET r == rets[j].run
            g == GossipAt(r)
            cleared == \E k \in DOMAIN calls :
                          k > g /\ calls[k].run = r /\ calls[k].op = "Clear"
        IN  g > 0 =>
              /\ rets[j].typ \in {BlockInsertOK, BlockInsertPayloadErr, BlockInsertPrestateErr}
                    => cleared /\ rets[j].cache = NilEnv
              /\ rets[j].typ = BlockInsertTemporaryErr
                    => ~cleared /\ rets[j].cache = rets[j].p /\ rets[j].p = calls[g].p

\* C4 happens: one run ended in a temporary error after Gossip, and a run
\* ended in a payload error after Gossip
C4_Witness ==
    /\ \E j \in DOMAIN rets : GossipAt(rets[j].run) > 0 /\ rets[j].typ = BlockInsertTemporaryErr
    /\ \E j \in DOMAIN rets : GossipAt(rets[j].run) > 0 /\ rets[j].typ = BlockInsertPayloadErr

\* the builder's payload was not inserted: the race returned none (timeout,
\* fetch error), or insertPayload on it returned a non-OK type
BuilderFailed ==
    /\ enabled
    /\ raceRet.returned
    /\ \/ raceRet.builder = NilEnv
       \/ \E j \in DOMAIN rets : rets[j].p.src = "builder" /\ rets[j].typ # BlockInsertOK

\* the engine fetch succeeded and, as far as the run on the engine payload has
\* got, the payload passed validation and every answer was good
EngineGoodSoFar ==
    /\ raceRet.returned
    /\ raceRet.errNil
    /\ envelope # NilEnv
    /\ sanityCheckPayload(envelope.txs) = "ok"
    /\ \A k \in DOMAIN calls :
          calls[k].p = envelope =>
              /\ calls[k].op = "CommitUnsafePayload" => calls[k].res = OkRes("")
              /\ calls[k].op = "NewPayload" => calls[k].res = OkRes(ExecutionValid)
              /\ calls[k].op = "ForkchoiceUpdate" => calls[k].res = OkRes(ExecutionValid)

\* when the builder's failure is one that confirmPayload gets to see (no
\* payload from the race, or a non-OK return of insertPayload on it) and the
\* engine side is good, the attempt goes on with the engine payload and ends
\* in BlockInsertOK with it
ReportedBuilderFailureFallsBack ==
    (BuilderFailed /\ EngineGoodSoFar) =>
        /\ cur = "engine"
        /\ \/ pc \in InsertStages
           \/ /\ pc = "done"
              /\ result = [returned |-> TRUE, out |-> envelope, typ |-> BlockInsertOK,
                           errNil |-> TRUE]
              /\ HasCall(run, "ForkchoiceUpdate", envelope, OkRes(ExecutionValid), Len(calls) + 1)

\* insertPayload on the builder's payload returned BlockInsertOK
BuilderSucceeded ==
    \E j \in DOMAIN rets : rets[j].p.src = "builder" /\ rets[j].typ = BlockInsertOK

\* C5: with the builder enabled, whatever the builder did short of a payload
\* that was inserted with BlockInsertOK, when the engine fetch succeeded and the
\* engine payload passes validation, commit, NewPayload = Valid and forkchoice
\* update = Valid, the attempt is not lost: confirmPayload does not crash, and
\* when it returns it returns BlockInsertOK with the engine payload.
C5_FailingBuilderNeverCostsAvailability ==
    (enabled /\ raceRet.returned /\ EngineGoodSoFar /\ ~BuilderSucceeded) =>
        /\ pc # "crashed"
        /\ pc = "done" =>
              result = [returned |-> TRUE, out |-> envelope, typ |-> BlockInsertOK,
                        errNil |-> TRUE]

\* the race returned both payloads and insertPayload on the builder's returned non-OK
BuilderRejected ==
    /\ raceRet.returned
    /\ raceRet.builder # NilEnv
    /\ raceRet.envelope # NilEnv
    /\ \E j \in DOMAIN rets : rets[j].p = builderEnvelope /\ rets[j].typ # BlockInsertOK

\* C6: when the race returned both payloads and insertPayload on the builder's
\* returned a non-OK type, confirmPayload runs insertPayload on the engine
\* payload exactly once, and what it returns is the engine envelope with the
\* type and error of that second run.
C6_EngineRunDecidesAfterBuilderRejection ==
    BuilderRejected =>
        /\ cur = "engine"
        /\ run = 2
        /\ rets[1].p = builderEnvelope
        /\ Cardinality({k \in DOMAIN calls :
                           calls[k].op = "sanityCheckPayload" /\ calls[k].p = envelope}) <= 1
        /\ pc = "done" =>
              /\ Len(rets) = 2
              /\ rets[2].p = envelope
              /\ rets[2].run = 2
              /\ Cardinality({k \in DOMAIN calls :
                                 calls[k].op = "sanityCheckPayload" /\ calls[k].p = envelope}) = 1
              /\ result = [returned |-> TRUE, out |-> envelope, typ |-> rets[2].typ,
                           errNil |-> rets[2].errNil]

\* C6 happens: the builder's payload ended in a payload error and the engine's
\* run returned another type
C6_Witness ==
    /\ pc = "done"
    /\ BuilderRejected
    /\ rets[1].typ = BlockInsertPayloadErr
    /\ result.typ = BlockInsertTemporaryErr

\* C7: a builder payload returned by the race is the first payload inserted,
\* whatever its profit; when insertPayload on it returns BlockInsertOK,
\* confirmPayload returns the builder envelope with BlockInsertOK and the engine
\* payload is never validated, committed, gossiped or submitted to the engine.
C7_BuilderPreferredWhateverProfit ==
    (raceRet.returned /\ raceRet.builder # NilEnv) =>
        /\ builderEnvelope = raceRet.builder
        /\ run = 1 => cur = "builder"
        /\ Len(rets) >= 1 => rets[1].p = builderEnvelope
        /\ (Len(rets) >= 1 /\ rets[1].typ = BlockInsertOK) =>
              /\ pc = "done"
              /\ Len(rets) = 1
              /\ result = [returned |-> TRUE, out |-> builderEnvelope, typ |-> BlockInsertOK,
                           errNil |-> TRUE]
              /\ \A k \in DOMAIN calls :
                    calls[k].op \in ExternalOps \cup {"sanityCheckPayload"}
                        => calls[k].p = builderEnvelope /\ calls[k].p # envelope

\* C7 happens: a builder payload of profit 0 was inserted while the engine had
\* delivered a payload too
C7_Witness ==
    /\ pc = "done"
    /\ raceRet.builder # NilEnv
    /\ raceRet.envelope # NilEnv
    /\ profit = 0
    /\ result.out = builderEnvelope
    /\ result.typ = BlockInsertOK

\* C8: when the gossiper's slot holds a payload at the start of confirmPayload,
\* the attempt calls neither eng.GetPayload nor builder.GetPayload (no race, no
\* builder goroutine, no ctxTimeout), and insertPayload runs on the cached payload.
C8_CachedPayloadReusedWithoutRace ==
    cached # NilEnv =>
        /\ pc \notin {"engineFetch", "select"}
        /\ ~engRes.returned
        /\ ~raceRet.returned
        /\ bpc = "none"
        /\ tmo = "none"
        /\ reqTimes = 0
        /\ envelope = cached
        /\ builderEnvelope = NilEnv
        /\ pc \in InsertStages => CurPayload = cached
        /\ \A k \in DOMAIN calls :
              calls[k].op \in ExternalOps \cup {"sanityCheckPayload"} => calls[k].p = cached
        /\ \A j \in DOMAIN rets : rets[j].p = cached

\* C8 happens: an attempt that found a payload in the slot has returned
C8_Witness ==
    /\ cached # NilEnv
    /\ pc = "done"
    /\ Len(rets) = 1

\* with the builder enabled, the race has returned only after eng.GetPayload
\* returned and with the channel filled or ctxTimeout done, and its first
\* envelope and its error are the engine fetch's
C9_ReturnsEngineResult ==
    (raceRet.returned /\ enabled) =>
        /\ engRes.returned
        /\ raceRet.engReturned
        /\ raceRet.doneReady \/ raceRet.chReady
        /\ raceRet.envelope = engRes.env
        /\ raceRet.errNil = engRes.ok
        /\ envelope = engRes.env

\* a step of the builder goroutine, or the expiry of the deadline, does not
\* cancel the ctx of the engine fetch
C9_EngineCtxUntouched ==
    (bpc' # bpc \/ (tmo = "live" /\ tmo' = "deadline")) => (ctxDone' => ctxDone)

\* C9: with the builder enabled, getPayloadWithBuilderPayload returns only
\* after eng.GetPayload has returned and the builder has answered or ctxTimeout
\* is done; its first envelope and its error are the engine fetch's result; and
\* neither the deadline's expiry nor a builder failure cancels the ctx the
\* engine fetch uses.
C9_EngineFetchNeverSacrificed ==
    []C9_ReturnsEngineResult /\ [][C9_EngineCtxUntouched]_vars

\* C9 happens: the deadline expired, the builder call failed after it, and the
\* race returned the engine's payload with the caller's ctx live
C9_Witness ==
    /\ enabled
    /\ raceRet.returned
    /\ tmo = "deadline"
    /\ bpc = "exited"
    /\ ~bres.ok
    /\ ~ctxDone
    /\ raceRet.envelope # NilEnv

\* C10: with the builder enabled, when builder.GetPayload returned a payload
\* and the goroutine put it on the channel before ctxTimeout was done (the
\* caller not cancelling), getPayloadWithBuilderPayload returns the engine
\* envelope together with the builder's envelope and profit, however late the
\* engine fetch returns.
C10_InTimeBuilderPayloadReturned ==
    (enabled /\ raceRet.returned /\ raceRet.sent /\ ~ctxDone) =>
        /\ raceRet.envelope = engRes.env
        /\ raceRet.builder = bres.envelope
        /\ raceRet.profit = bres.profit

\* RecordBuilderRequestFail records of the attempt
BuilderRequestFails ==
    Cardinality({k \in DOMAIN calls : calls[k].op = "RecordBuilderRequestFail"})

\* when the race returned, ctxTimeout was done without the caller cancelling
\* (the deadline had expired, or the goroutine had cancelled after an error of
\* builder.GetPayload) and builder.GetPayload had not returned a payload in time
BuilderLateOrFailed ==
    /\ enabled
    /\ raceRet.returned
    /\ ~ctxDone
    /\ raceRet.doneReady
    /\ ~raceRet.intime

\* the failure metric is recorded exactly when the race returns no builder
\* payload, and the race returns none when the channel was empty
FailMetricFollowsResult ==
    (enabled /\ raceRet.returned) =>
        /\ BuilderRequestFails = (IF raceRet.builder = NilEnv THEN 1 ELSE 0)
        /\ ~raceRet.chReady => raceRet.builder = NilEnv
        /\ raceRet.errNil = engRes.ok

\* C11: with the builder enabled, when the builder fetch exceeded the deadline
\* or failed, getPayloadWithBuilderPayload returns the engine payload with a nil
\* builder envelope and a nil profit, its error is the engine fetch's, and
\* RecordBuilderRequestFail is recorded exactly once; it is recorded zero times
\* when a builder payload is returned.
C11_LateOrFailedBuilderGivesEngineOnly ==
    /\ BuilderLateOrFailed =>
          /\ raceRet.envelope = engRes.env
          /\ raceRet.builder = NilEnv
          /\ raceRet.profit = NilProfit
          /\ raceRet.errNil = engRes.ok
          /\ BuilderRequestFails = 1
    /\ (enabled /\ raceRet.returned /\ raceRet.builder # NilEnv) => BuilderRequestFails = 0

\* C12: with the builder disabled, getPayloadWithBuilderPayload only calls
\* eng.GetPayload: no goroutine and no ctxTimeout exist, builder.GetPayload is
\* never called, nothing is put on a channel, no builder metric is recorded,
\* and it returns (engine envelope, nil, nil, engine error).
C12_DisabledBuilderOnlyEngineFetch ==
    ~enabled =>
        /\ bpc = "none"
        /\ tmo = "none"
        /\ bres = NoBuilderRes
        /\ ch = NilResult
        /\ reqTimes = 0
        /\ BuilderRequestFails = 0
        /\ pc # "select"
        /\ \A k \in DOMAIN calls : calls[k].res # [kind |-> "metric", v |-> "builder"]
        /\ raceRet.returned =>
              /\ engRes.returned
              /\ raceRet.envelope = engRes.env
              /\ raceRet.builder = NilEnv
              /\ raceRet.profit = NilProfit
              /\ raceRet.errNil = engRes.ok

\* C12 happens: with the builder disabled the race function returned the
\* engine's payload
C12_Witness ==
    /\ ~enabled
    /\ raceRet.returned
    /\ raceRet.envelope # NilEnv
    /\ raceRet.errNil

\* every transaction of the list has a type byte
Decodable(txns) == \A i \in DOMAIN txns : Len(txns[i]) > 0

\* the list is not empty, starts with a deposit, and has no deposit after a
\* transaction that is not a deposit
DepositsFirst(txns) ==
    /\ Len(txns) > 0
    /\ txns[1][1] = DepositTxType
    /\ \A i, j \in DOMAIN txns :
          (i < j /\ txns[i][1] # DepositTxType) => txns[j][1] # DepositTxType

\* the answer sanityCheckPayload gave in the insertPayload run ("none" before)
SanityAnswer ==
    IF \E k \in DOMAIN calls : calls[k].op = "sanityCheckPayload"
    THEN calls[CHOOSE k \in DOMAIN calls : calls[k].op = "sanityCheckPayload"].res.kind
    ELSE "none"

\* C13: for every list of decodable transactions, sanityCheckPayload succeeds
\* exactly when the list is not empty, its first transaction is a deposit and
\* no deposit comes after the first transaction that is not a deposit;
\* otherwise it returns an error.
C13_SanityAcceptsExactlyDepositsFirst ==
    (Decodable(envelope.txs) /\ SanityAnswer # "none") =>
        /\ SanityAnswer \in {"ok", "err"}
        /\ SanityAnswer = "ok" <=> DepositsFirst(envelope.txs)
        /\ SanityAnswer = sanityCheckPayload(envelope.txs)

\* C13 happens: the list deposit, non-deposit, deposit was checked and refused
C13_Witness ==
    /\ envelope.txs = <<(<<DepositTxType>>), (<<2>>), (<<DepositTxType>>)>>
    /\ SanityAnswer = "err"
    /\ result.typ = BlockInsertPayloadErr

\* a list whose first transaction has a type byte and which holds an
\* undecodable transaction further on is refused with an error
UndecodableAfterFirstRefused ==
    (Len(envelope.txs) > 0 /\ Len(envelope.txs[1]) > 0 /\ ~Decodable(envelope.txs)
        /\ SanityAnswer # "none") =>
        /\ SanityAnswer = "err"
        /\ result = [returned |-> TRUE, out |-> envelope, typ |-> BlockInsertPayloadErr,
                     errNil |-> FALSE]

\* C14: for every non-empty transaction list that holds an undecodable (empty)
\* transaction at any index, index 0 included, sanityCheckPayload returns an
\* error and insertPayload returns BlockInsertPayloadErr; it neither crashes
\* nor accepts the payload.
C14_UndecodableTransactionRefused ==
    (Len(envelope.txs) > 0 /\ ~Decodable(envelope.txs) /\ SanityAnswer # "none") =>
        /\ pc # "crashed"
        /\ SanityAnswer = "err"
        /\ Len(rets) = 1
        /\ rets[1].typ = BlockInsertPayloadErr

\* C15: when eng.ForkchoiceUpdate returns an error to startPayload: an input
\* error with code InvalidForkchoiceState gives BlockInsertPrestateErr, with
\* code InvalidPayloadAttributes BlockInsertPayloadErr, with any other code
\* BlockInsertPrestateErr, and an error that is no input error
\* BlockInsertTemporaryErr; each time the returned id is the zero value and
\* the error is not nil.
C15_StartPayloadClassifiesErrors ==
    (started.returned /\ started.res.kind # "ok") =>
        /\ started.id = ZeroPayloadID
        /\ ~started.errNil
        /\ started.res.kind = "input" =>
              started.typ = (CASE started.res.v = InvalidForkchoiceState -> BlockInsertPrestateErr
                               [] started.res.v = InvalidPayloadAttributes -> BlockInsertPayloadErr
                               [] OTHER -> BlockInsertPrestateErr)
        /\ started.res.kind = "transport" => started.typ = BlockInsertTemporaryErr

\* C15 happens: startPayload returned after an inconsistent forkchoice state
C15_Witness ==
    /\ started.returned
    /\ started.res = [kind |-> "input", v |-> InvalidForkchoiceState, id |-> NilID]
    /\ started.typ = BlockInsertPrestateErr

\* C16: when eng.ForkchoiceUpdate returns without error, startPayload returns
\* BlockInsertOK exactly when the status is Valid and a payload id is present,
\* and then returns that id with a nil error; Invalid and InvalidBlockHash give
\* BlockInsertPayloadErr; Valid without an id and every other status give
\* BlockInsertTemporaryErr; the failures carry the zero id and an error.
C16_StartPayloadClassifiesStatus ==
    (started.returned /\ started.res.kind = "ok") =>
        /\ started.typ = BlockInsertOK
              <=> (started.res.v = ExecutionValid /\ started.res.id.present)
        /\ started.typ = BlockInsertOK => started.id = started.res.id.val /\ started.errNil
        /\ started.typ # BlockInsertOK => started.id = ZeroPayloadID /\ ~started.errNil
        /\ started.res.v \in {ExecutionInvalid, ExecutionInvalidBlockHash}
              => started.typ = BlockInsertPayloadErr
        /\ (started.res.v = ExecutionValid /\ ~started.res.id.present)
              => started.typ = BlockInsertTemporaryErr
        /\ started.res.v = ExecutionSyncing => started.typ = BlockInsertTemporaryErr

\* C16 happens: startPayload returned the id of a Valid answer
C16_Witness ==
    /\ started.returned
    /\ started.res.kind = "ok"
    /\ started.res.v = ExecutionValid
    /\ started.res.id = [present |-> TRUE, val |-> MaxPayloadID]
    /\ started.typ = BlockInsertOK
    /\ started.id = MaxPayloadID

\* the return of the insertPayload run whose forkchoice update was answered res
\* is of type typ, carries an error, and Clear was called and left the slot empty
ForkchoiceAnswerGives(res, typ) ==
    \A k \in DOMAIN calls :
        (calls[k].op = "ForkchoiceUpdate" /\ calls[k].res = res) =>
            \A j \in DOMAIN rets :
                rets[j].run = calls[k].run =>
                    /\ rets[j].p = calls[k].p
                    /\ rets[j].typ = typ
                    /\ ~rets[j].errNil
                    /\ rets[j].cache = NilEnv
                    /\ \E c \in DOMAIN calls : calls[c].run = rets[j].run /\ calls[c].op = "Clear"

\* C17 as stated: when the forkchoice update of insertPayload fails with an
\* input error of code InvalidForkchoiceState, insertPayload returns
\* BlockInsertPrestateErr and the gossiper's slot is cleared.
C17_InconsistentForkchoiceIsPrestateErr ==
    ForkchoiceAnswerGives(InputErr(InvalidForkchoiceState), BlockInsertPrestateErr)

\* C17 amended: when the forkchoice update of insertPayload fails with an
\* input error of code InvalidForkchoiceState, insertPayload returns
\* BlockInsertPayloadErr with an error and the gossiper's slot is cleared.
C17_InconsistentForkchoiceIsPayloadErr ==
    ForkchoiceAnswerGives(InputErr(InvalidForkchoiceState), BlockInsertPayloadErr)

\* C17 happens: an insertPayload run returned after its forkchoice update was
\* refused as inconsistent
C17_Witness ==
    \E j \in DOMAIN rets :
        /\ HasCall(rets[j].run, "ForkchoiceUpdate", rets[j].p, InputErr(InvalidForkchoiceState),
                   Len(calls) + 1)
        /\ rets[j].cache = NilEnv

\* C18: when eng.GetPayload fails (an error and no envelope), confirmPayload
\* returns BlockInsertTemporaryErr with an error: it neither runs insertPayload
\* on the missing engine payload, nor crashes, nor returns without the error.
C18_EngineFetchFailureClassified ==
    (raceRet.returned /\ ~raceRet.errNil) =>
        /\ pc # "crashed"
        /\ \A k \in DOMAIN calls : calls[k].op = "sanityCheckPayload" => calls[k].p # NilEnv
        /\ pc = "done" => result.typ = BlockInsertTemporaryErr /\ ~result.errNil

\* run r made a Clear call
ClearedIn(r) == \E k \in DOMAIN calls : calls[k].run = r /\ calls[k].op = "Clear"

\* run r submitted a forkchoice update
ForkchoiceIn(r) == \E k \in DOMAIN calls : calls[k].run = r /\ calls[k].op = "ForkchoiceUpdate"

\* the run that made call k has returned, and its return satisfies P
ReturnAfter(k, P(_)) ==
    /\ \E j \in DOMAIN rets : rets[j].run = calls[k].run
    /\ \A j \in DOMAIN rets : rets[j].run = calls[k].run => P(rets[j])

\* C19: in an insertPayload run, a transport error of eng.NewPayload gives
\* BlockInsertTemporaryErr with the gossiped payload left in the slot; status
\* Invalid or InvalidBlockHash clears the slot and gives BlockInsertPayloadErr;
\* any other status that is not Valid gives BlockInsertTemporaryErr with the
\* slot left as it is; in the three cases an error is returned and no
\* forkchoice update is submitted.
C19_NewPayloadFailureClassified ==
    \A k \in DOMAIN calls :
        (calls[k].op = "NewPayload" /\ calls[k].res # OkRes(ExecutionValid)) =>
            LET res == calls[k].res
                r == calls[k].run
                kept(ret) == ~ClearedIn(r) /\ ret.cache = calls[k].p
                cleared(ret) == ClearedIn(r) /\ ret.cache = NilEnv
                classified(ret) ==
                    /\ ret.p = calls[k].p
                    /\ ~ret.errNil
                    /\ res = TransportErr => ret.typ = BlockInsertTemporaryErr /\ kept(ret)
                    /\ (res.kind = "ok" /\ res.v \in {ExecutionInvalid, ExecutionInvalidBlockHash})
                          => ret.typ = BlockInsertPayloadErr /\ cleared(ret)
                    /\ (res.kind = "ok" /\ res.v \notin {ExecutionInvalid, ExecutionInvalidBlockHash})
                          => ret.typ = BlockInsertTemporaryErr /\ kept(ret)
            IN  /\ ~ForkchoiceIn(r)
                /\ ReturnAfter(k, classified)

\* C19 happens: one run ended on a Syncing answer of eng.NewPayload with its
\* payload kept, and a run ended on an Invalid answer
C19_Witness ==
    /\ \E j \in DOMAIN rets :
          /\ HasCall(rets[j].run, "NewPayload", rets[j].p, OkRes(ExecutionSyncing), Len(calls) + 1)
          /\ rets[j].cache = rets[j].p
    /\ \E j \in DOMAIN rets :
          HasCall(rets[j].run, "NewPayload", rets[j].p, OkRes(ExecutionInvalid), Len(calls) + 1)

\* C20: in an insertPayload run, a transport error of the forkchoice update
\* gives BlockInsertTemporaryErr and leaves the slot as it is; an input error
\* with a code other than InvalidForkchoiceState gives BlockInsertPrestateErr
\* and clears the slot; a forkchoice update that returns without error always
\* clears the slot, and gives BlockInsertPayloadErr when the status is not
\* Valid and BlockInsertOK when it is.
C20_ForkchoiceAnswerClassified ==
    \A k \in DOMAIN calls :
        calls[k].op = "ForkchoiceUpdate" =>
            LET res == calls[k].res
                r == calls[k].run
                kept(ret) == ~ClearedIn(r) /\ ret.cache = calls[k].p
                cleared(ret) == ClearedIn(r) /\ ret.cache = NilEnv
                classified(ret) ==
                    /\ ret.p = calls[k].p
                    /\ res = TransportErr =>
                          ret.typ = BlockInsertTemporaryErr /\ ~ret.errNil /\ kept(ret)
                    /\ (res.kind = "input" /\ res.v # InvalidForkchoiceState) =>
                          ret.typ = BlockInsertPrestateErr /\ ~ret.errNil /\ cleared(ret)
                    /\ (res.kind = "ok" /\ res.v # ExecutionValid) =>
                          ret.typ = BlockInsertPayloadErr /\ ~ret.errNil /\ cleared(ret)
                    /\ res = OkRes(ExecutionValid) =>
                          ret.typ = BlockInsertOK /\ ret.errNil /\ cleared(ret)
            IN  ReturnAfter(k, classified)

\* C20 happens: one run ended on a transport error of the forkchoice update
\* with its payload kept, and a run ended on a Syncing answer with the slot
\* cleared
C20_Witness ==
    /\ \E j \in DOMAIN rets :
          /\ HasCall(rets[j].run, "ForkchoiceUpdate", rets[j].p, TransportErr, Len(calls) + 1)
          /\ rets[j].cache = rets[j].p
    /\ \E j \in DOMAIN rets :
          /\ HasCall(rets[j].run, "ForkchoiceUpdate", rets[j].p, OkRes(ExecutionSyncing),
                     Len(calls) + 1)
          /\ rets[j].typ = BlockInsertPayloadErr

\* the gossiper's slot when insertPayload run r was entered: what agossip.Get()
\* returned for the first run, what the first run left for the second
CacheAtEntry(r) == IF r = 1 THEN cached ELSE rets[1].cache

\* C21: when sanityCheckPayload returns an error, the insertPayload run returns
\* BlockInsertPayloadErr with that error and has made no conductor commit, no
\* gossip, no NewPayload, no forkchoice update and no Clear; the gossiper's
\* slot at return is what it was when the run was entered.
C21_SanityFailureHasNoSideEffects ==
    \A k \in DOMAIN calls :
        (calls[k].op = "sanityCheckPayload" /\ calls[k].res.kind = "err") =>
            LET r == calls[k].run
                untouched(ret) ==
                    /\ ret.p = calls[k].p
                    /\ ret.typ = BlockInsertPayloadErr
                    /\ ~ret.errNil
                    /\ ret.cache = CacheAtEntry(r)
            IN  /\ \A c \in DOMAIN calls :
                      calls[c].run = r => calls[c].op \notin ExternalOps \cup {"Clear"}
                /\ ReturnAfter(k, untouched)

\* C21 happens: the engine payload of a fallback run failed the check while
\* the slot held the builder's payload, and the slot still holds it
C21_Witness ==
    /\ Len(rets) = 2
    /\ rets[2].typ = BlockInsertPayloadErr
    /\ HasCall(2, "sanityCheckPayload", envelope, [kind |-> "err", v |-> ""], Len(calls) + 1)
    /\ rets[2].cache = builderEnvelope
    /\ cache = builderEnvelope

\* C22: when CommitUnsafePayload returns an error, the insertPayload run
\* returns BlockInsertTemporaryErr with an error, makes no Gossip, NewPayload,
\* ForkchoiceUpdate or Clear call, and the gossiper's slot at return is what it
\* was when the run was entered.
C22_CommitFailureLeavesStateUnchanged ==
    \A k \in DOMAIN calls :
        (calls[k].op = "CommitUnsafePayload" /\ calls[k].res.kind # "ok") =>
            LET r == calls[k].run
                retryable(ret) ==
                    /\ ret.p = calls[k].p
                    /\ ret.typ = BlockInsertTemporaryErr
                    /\ ~ret.errNil
                    /\ ret.cache = CacheAtEntry(r)
            IN  /\ \A c \in DOMAIN calls :
                      calls[c].run = r => calls[c].op \notin {"Gossip", "NewPayload", "ForkchoiceUpdate", "Clear"}
                /\ ReturnAfter(k, retryable)

\* C22 happens: the conductor refused a payload reused from the slot, and the
\* slot still holds it when confirmPayload has returned
C22_Witness ==
    /\ pc = "done"
    /\ cached # NilEnv
    /\ HasCall(1, "CommitUnsafePayload", cached, TransportErr, Len(calls) + 1)
    /\ result.typ = BlockInsertTemporaryErr
    /\ cache = cached

\* C23: every forkchoice update insertPayload submits for a payload carries
\* head = the payload's block hash, safe = that hash when updateSafe is true
\* and else the safe hash of the caller's forkchoice state, finalized = the
\* caller's finalized hash, and nil payload attributes; this holds for the
\* fallback run as well, which does not see what the builder's run wrote.
C23_FinalForkchoiceCarriesPayloadHead ==
    \A k \in DOMAIN calls :
        calls[k].op = "ForkchoiceUpdate" =>
            /\ calls[k].fc.head = calls[k].p.BlockHash
            /\ calls[k].fc.safe = (IF updateSafe THEN calls[k].p.BlockHash ELSE fc.safe)
            /\ calls[k].fc.finalized = fc.finalized
            /\ calls[k].attrs = NilAttrs

\* C23 happens: without safe-head promotion, the builder's run and the
\* fallback run each submitted a forkchoice update, for different heads
C23_Witness ==
    /\ ~updateSafe
    /\ \E k \in DOMAIN calls :
          calls[k].op = "ForkchoiceUpdate" /\ calls[k].run = 1 /\ calls[k].p = builderEnvelope
    /\ \E k \in DOMAIN calls :
          /\ calls[k].op = "ForkchoiceUpdate" /\ calls[k].run = 2 /\ calls[k].p = envelope
          /\ calls[k].fc.safe = fc.safe
          /\ calls[k].fc.head # fc.head

\* C24: with the builder enabled, when ctxTimeout's deadline expired before the
\* goroutine put anything on the channel, getPayloadWithBuilderPayload returns
\* a nil builder envelope and a nil profit, also when the goroutine put a
\* payload on the channel after the deadline and before eng.GetPayload returned.
C24_ExpiredDeadlineDiscardsBuilderResult ==
    (enabled /\ raceRet.returned /\ tmo = "deadline" /\ ~raceRet.sent) =>
        /\ raceRet.builder = NilEnv
        /\ raceRet.profit = NilProfit

\* C25: a payload found in the gossiper's slot at the start of an attempt (put
\* there by the Gossip call of an earlier attempt) is not handed to Gossip
\* again by the attempt that reuses it.
C25_ReusedPayloadNotGossipedAgain ==
    cached # NilEnv =>
        \A k \in DOMAIN calls : calls[k].op = "Gossip" => calls[k].p # cached

\* the payloads the attempt has obtained: from the slot, the engine or the builder
Obtained == {envelope, builderEnvelope} \ {NilEnv}

\* C26: once confirmPayload has its payloads, each payload obtained has exactly
\* one gas-used record and one transaction-count record, made before any
\* insertPayload run, and the tag of each record is the source that produced
\* the payload, also for a payload reused from the gossiper's slot.
C26_MetricsTaggedByProducer ==
    run >= 1 =>
        \A p \in Obtained :
            \A m \in {"RecordPayloadGas", "CountSequencedTxsBySource"} :
                LET ks == {k \in DOMAIN calls : calls[k].op = m /\ calls[k].p = p}
                IN  /\ Cardinality(ks) = 1
                    /\ \A k \in ks :
                          /\ calls[k].res.v = p.src
                          /\ \A j \in 1..k : calls[j].op # "sanityCheckPayload"

\* the goroutine is at its send (or its cancel) and can carry it out: the
\* channel has room
SendNeverBlocks == bpc = "returned" => ch = NilResult

\* C27: with eng.GetPayload returning in the end and the timer of ctxTimeout
\* firing in the end, every call of getPayloadWithBuilderPayload returns, also
\* when builder.GetPayload never returns or returns after the function has;
\* and the goroutine, once builder.GetPayload has returned, always finds room
\* on the channel and ends.
C27_RaceReturnsAndGoroutineEnds ==
    /\ (pc = "engineFetch") ~> raceRet.returned
    /\ (bpc = "returned") ~> (bpc = "exited")
    /\ []SendNeverBlocks

\* C27 happens: the function returned on the expired deadline with the builder
\* still silent, and the builder's payload was put on the channel afterwards
C27_Witness ==
    /\ raceRet.returned
    /\ tmo = "deadline"
    /\ ~raceRet.chReady
    /\ ~bres.intime
    /\ bpc = "exited"
    /\ ch.envelope # NilEnv

\* the payloads the attempt has committed to the conductor, gossiped or
\* submitted to the engine so far
Exposed == {calls[k].p : k \in {i \in DOMAIN calls : calls[i].op \in ExternalOps}}

\* C28 as stated: within one confirmPayload attempt at most one distinct
\* payload is committed to the conductor, gossiped or submitted to the engine.
C28_OnePayloadExposedPerAttempt == Cardinality(Exposed) <= 1

\* C28 amended: within one confirmPayload attempt at most one distinct payload
\* is committed, gossiped or submitted to the engine, unless insertPayload on
\* the builder's payload returned a non-OK type: then the engine payload is
\* committed, gossiped and submitted too, in a second run that starts after
\* the builder's run returned, and no third payload ever is.
C28_SecondPayloadOnlyAfterBuilderFailure ==
    /\ Cardinality(Exposed) <= 2
    /\ Cardinality(Exposed) = 2 =>
          /\ Exposed = {builderEnvelope, envelope}
          /\ Len(rets) >= 1
          /\ rets[1].p = builderEnvelope
          /\ rets[1].typ # BlockInsertOK
          /\ \A k \in DOMAIN calls :
                calls[k].op \in ExternalOps =>
                    calls[k].p = (IF calls[k].run = 1 THEN builderEnvelope ELSE envelope)

\* C28 happens: the builder's payload and the engine's payload were both
\* committed and gossiped in one attempt
C28_Witness ==
    /\ \E k \in DOMAIN calls : calls[k].op = "Gossip" /\ calls[k].p = builderEnvelope
    /\ \E k \in DOMAIN calls : calls[k].op = "Gossip" /\ calls[k].p = envelope
    /\ builderEnvelope # envelope

\* C29: whenever confirmPayload has returned, in whatever attempt, the
\* gossiper's slot is empty when the returned type is BlockInsertOK,
\* BlockInsertPayloadErr or BlockInsertPrestateErr, and a slot that is not
\* empty goes with BlockInsertTemporaryErr and holds the returned payload.
C29_CacheAgreesWithReturn ==
    (pc = "done" /\ result.returned) =>
        /\ result.typ \in {BlockInsertOK, BlockInsertPayloadErr, BlockInsertPrestateErr}
              => cache = NilEnv
        /\ cache # NilEnv => result.typ = BlockInsertTemporaryErr /\ cache = result.out

\* a returned (type, error = nil?) pair: one of the four types, and
\* BlockInsertOK exactly with a nil error
WellTyped(typ, errNil) ==
    /\ typ \in ErrTypes
    /\ typ = BlockInsertOK <=> errNil

\* C30: where startPayload is called (before the first attempt), whatever
\* eng.ForkchoiceUpdate answers, it returns one of the four
\* BlockInsertionErrType values, BlockInsertOK exactly when its error is nil;
\* and so does every return of insertPayload and of confirmPayload.
C30_TypeIsOKExactlyWithoutError ==
    /\ (pc = "idle" /\ attempt = 0) =>
          \A r \in StartResults : WellTyped(startPayload(r).typ, startPayload(r).errNil)
    /\ started.returned => WellTyped(started.typ, started.errNil)
    /\ \A j \in DOMAIN rets : WellTyped(rets[j].typ, rets[j].errNil)
    /\ result.returned => WellTyped(result.typ, result.errNil)

\* C30 happens: confirmPayload returned BlockInsertOK without error from the
\* fallback run, after the builder's run returned a payload error
C30_Witness ==
    /\ result.returned
    /\ result.typ = BlockInsertOK
    /\ result.errNil
    /\ Len(rets) = 2
    /\ rets[1].typ = BlockInsertPayloadErr
    /\ ~rets[1].errNil

\* positions of the attempt's RecordSequencerPayloadInserted records
InsertedRecords == {k \in DOMAIN calls : calls[k].op = "RecordSequencerPayloadInserted"}

\* C31: an attempt records RecordSequencerPayloadInserted at most once; an
\* attempt that returned a type other than BlockInsertOK has recorded none, and
\* the record of an attempt that returned BlockInsertOK carries the source of
\* the payload returned.
C31_InsertedMetricOnlyOnSuccess ==
    /\ Cardinality(InsertedRecords) <= 1
    /\ (pc = "done" /\ result.typ # BlockInsertOK) => InsertedRecords = {}
    /\ (pc = "done" /\ result.typ = BlockInsertOK) =>
          \A k \in InsertedRecords : calls[k].res.v = result.out.src
====
